---- MODULE Spec2Model ----
(***************************************************************************)
(* Dual-write stock consistency of stocks/commands/write_stock.py:         *)
(* the MySQL stocks table (durable store), the Redis stock:{id} hashes     *)
(* (cache), and the four write paths set_stock_for_product,                *)
(* update_stock_mysql, update_stock_redis and _populate_redis_from_mysql.  *)
(***************************************************************************)
EXTENDS Integers, Sequences, FiniteSets, TLC

\* ------------------------------------------------------------------ bounds
MaxQty == 1        \* set_stock_for_product quantities are 0..MaxQty
MaxOps == 3        \* requests served in one behaviour

Products == {1, 2}           \* product ids
Threads == {1, 2}            \* request contexts
BatchLens == {0, 1, 2}       \* number of line items of an order
Shapes == {"obj", "map"}     \* attribute-bearing object / key-value mapping
ItemQuantities == {1, 2}     \* quantity of a line item
OrderUnits == {0, 1, 2}      \* units moved by one order, all line items together

\* --------------------------------------------------------- text conversion
DigitChars == <<"0", "1", "2", "3", "4", "5", "6", "7", "8", "9">>

RECURSIVE NatStr(_)
NatStr(n) ==
    IF n < 10 THEN <<DigitChars[n + 1]>>
    ELSE NatStr(n \div 10) \o <<DigitChars[(n % 10) + 1]>>

\* str(n): the text Redis stores for an integer field value
IntStr(n) == IF n < 0 THEN <<"-">> \o NatStr(-n) ELSE NatStr(n)

DigitVal(c) == CHOOSE d \in 0..9 : DigitChars[d + 1] = c

RECURSIVE ParseNat(_)
ParseNat(s) ==
    IF Len(s) = 0 THEN 0
    ELSE ParseNat(SubSeq(s, 1, Len(s) - 1)) * 10 + DigitVal(s[Len(s)])

\* int(text)
PyInt(s) == IF s[1] = "-" THEN -ParseNat(Tail(s)) ELSE ParseNat(s)

\* str(float(price)) for a price held in tenths
FloatStr(tenths) == IntStr(tenths \div 10) \o <<".">> \o NatStr(tenths % 10)

DefaultPrice == 0            \* price default 0.0, in tenths
DefaultStock == 0            \* current_stock default when the field is absent

DefaultName(p) == <<"Product ">> \o IntStr(p)
DefaultSku(p) == <<"SKU-">> \o IntStr(p)

\* the products table joined by the resync (id -> name, sku, price in tenths)
ProductsTable ==
    [p \in Products |->
        [name |-> <<"Item ">> \o IntStr(p), sku |-> <<"REF">> \o IntStr(p), price |-> 100 * p - 1]]

\* ------------------------------------------------------------------ inputs
Items == [shape : Shapes, product_id : Products, quantity : ItemQuantities, meta : BOOLEAN]
RECURSIVE TotalUnits(_)
TotalUnits(items) ==
    IF items = <<>> THEN 0 ELSE Head(items).quantity + TotalUnits(Tail(items))

\* the line items of one order come from one source: all carry name, sku and price, or none does
Batches ==
    {b \in UNION {[1..n -> Items] : n \in BatchLens} :
        /\ \A i, j \in DOMAIN b : b[i].meta = b[j].meta
        /\ TotalUnits(b) \in OrderUnits}
SetRequests == [kind : {"set"}, product_id : Products, quantity : 0..MaxQty]
BatchRequests == [kind : {"out", "in"}, items : Batches]
Requests == SetRequests \cup BatchRequests

NoRequest == [kind |-> "none"]
NoLast == [kind |-> "none"]

\* ------------------------------------------------------------------- state
VARIABLES
    stocks,     \* committed rows of the stocks table: records [product_id, quantity]
    cache,      \* Redis: product id -> hash of stock:{id} (empty hash = no key)
    pc,         \* thread -> position in its request
    req,        \* thread -> request being served
    sess,       \* thread -> SQLAlchemy session of the request: [open, pending]
    loc,        \* thread -> locals of the running function
    result,     \* thread -> outcome of the request
    pre,        \* thread -> stocks and cache when the request was called
    last,       \* the last request when it was a completed check-out, with its pre-state
    clean,      \* no request has raised so far
    nops        \* requests called so far

vars == <<stocks, cache, pc, req, sess, loc, result, pre, last, clean, nops>>

EmptyHash == [f \in {} |-> <<>>]
NoLocals == [rowcount |-> 0, response |-> <<>>, exc |-> "none", idx |-> 1, pipeline |-> <<>>,
             fetched |-> {}, path |-> "none", syncOpen |-> FALSE]
NoResult == [status |-> "none", value |-> <<>>, exc |-> "none"]
ClosedSession == [open |-> FALSE, pending |-> <<>>]
NoPre == [stocks |-> {}, cache |-> <<>>]
OpenSession == [open |-> TRUE, pending |-> <<>>]

Init ==
    /\ stocks = {}
    /\ cache = [p \in Products |-> EmptyHash]
    /\ pc = [t \in Threads |-> "idle"]
    /\ req = [t \in Threads |-> NoRequest]
    /\ sess = [t \in Threads |-> ClosedSession]
    /\ loc = [t \in Threads |-> NoLocals]
    /\ result = [t \in Threads |-> NoResult]
    /\ pre = [t \in Threads |-> NoPre]
    /\ last = NoLast
    /\ clean = TRUE
    /\ nops = 0

\* ----------------------------------------------------------- durable store
RowsOf(rows, p) == {r \in rows : r.product_id = p}

\* UPDATE stocks SET quantity = :qty WHERE product_id = :pid
UpdateSet(rows, p, q) ==
    {IF r.product_id = p THEN [r EXCEPT !.quantity = q] ELSE r : r \in rows}

\* quantity {operation} :qty
ApplyOperation(operation, current, qty) ==
    IF operation = "+" THEN current + qty ELSE current - qty

\* mutant: an upsert, as set_stock_for_product does
UpdateDeltaUpserts(rows, p, operation, qty) ==
    IF RowsOf(rows, p) = {}
    THEN rows \cup {[product_id |-> p, quantity |-> ApplyOperation(operation, 0, qty)]}
    ELSE {IF r.product_id = p
            THEN [r EXCEPT !.quantity = ApplyOperation(operation, r.quantity, qty)]
            ELSE r : r \in rows}

\* UPDATE stocks SET quantity = quantity {operation} :qty WHERE product_id = :pid
UpdateDelta(rows, p, operation, qty) ==
    {IF r.product_id = p
        THEN [r EXCEPT !.quantity = ApplyOperation(operation, r.quantity, qty)]
        ELSE r : r \in rows}

\* session.add(Stock(product_id, quantity)); session.flush()
InsertRow(rows, p, q) == rows \cup {[product_id |-> p, quantity |-> q]}

ApplyStmt(rows, s) ==
    CASE s.op = "set" -> UpdateSet(rows, s.product_id, s.quantity)
      [] s.op = "delta" -> UpdateDelta(rows, s.product_id, s.operation, s.quantity)
      [] s.op = "insert" -> InsertRow(rows, s.product_id, s.quantity)

RECURSIVE ApplyAll(_, _)
ApplyAll(rows, stmts) ==
    IF stmts = <<>> THEN rows ELSE ApplyAll(ApplyStmt(rows, Head(stmts)), Tail(stmts))

\* the rows a session sees: the committed rows with its pending statements applied
View(t) == ApplyAll(stocks, sess[t].pending)

\* session.execute / session.flush queue a statement in the open transaction
Execute(s, stmt) == [s EXCEPT !.pending = Append(@, stmt)]
\* session.commit()
CommitRows(rows, s) == ApplyAll(rows, s.pending)
\* after session.commit() the transaction holds no pending statement
AfterCommit(s) == [s EXCEPT !.pending = <<>>]
\* mutant: the pending statements survive the rollback
RollbackSkipped(s) == s

\* session.rollback()
Rollback(s) == [s EXCEPT !.pending = <<>>]
\* mutant: the session is not released
CloseSkipped(s) == s

\* session.close(): releases the connection, the open transaction is rolled back
Close(s) == [open |-> FALSE, pending |-> <<>>]

\* ------------------------------------------------------------------- cache
\* r.hset(key, mapping): sets the given fields, the other fields are kept
HSet(hash, mapping) == mapping @@ hash
\* r.hget(key, field): None when the key or the field is absent
HasField(hash, field) == field \in DOMAIN hash
\* r.scan_iter("stock:*")
StockKeys(c) == {p \in Products : DOMAIN c[p] # {}}

AllIdle == \A t \in Threads : pc[t] = "idle"

\* the products an open transaction has a statement on
Touched(u) == {sess[u].pending[i].product_id : i \in DOMAIN sess[u].pending}
\* an UPDATE waits while another transaction holds the lock of a row it matches
UpdateBlocked(t, p) ==
    \E u \in Threads \ {t} : p \in Touched(u) /\ RowsOf(View(u), p) # {}
\* an INSERT waits while another transaction holds the row or the gap of its key
InsertBlocked(t, p) == \E u \in Threads \ {t} : p \in Touched(u)

\* ------------------------------------------------- set_stock_for_product
UpdatedMessage(rowcount) == <<"rows updated: ">> \o IntStr(rowcount)
AddedMessage(p) == <<"rows added: ">> \o IntStr(p)

\* line 23: the insert path is taken when the UPDATE matched no row
TakesInsertPath(rowcount) == rowcount = 0

\* mutant: the cache write is dropped
SetStockCacheWriteDropped(c, p, q) == c

\* lines 30-31: r.hset(f"stock:{product_id}", "quantity", quantity)
SetStockCacheWrite(c, p, q) == [c EXCEPT ![p] = HSet(@, "quantity" :> IntStr(q))]

CallSetStock(t, r) ==
    /\ pc[t] = "idle"
    /\ nops < MaxOps
    /\ r \in SetRequests
    /\ req' = [req EXCEPT ![t] = r]
    /\ sess' = [sess EXCEPT ![t] = OpenSession]
    /\ pc' = [pc EXCEPT ![t] = "set_update"]
    /\ loc' = [loc EXCEPT ![t] = NoLocals]
    /\ result' = [result EXCEPT ![t] = NoResult]
    /\ pre' = [pre EXCEPT ![t] = [stocks |-> stocks, cache |-> cache]]
    /\ last' = NoLast
    /\ nops' = nops + 1
    /\ UNCHANGED <<stocks, cache, clean>>

\* the locals left when the call has raised: its frame is gone, the exception is kept
Raised(exc) == [NoLocals EXCEPT !.exc = exc]

Raise(t, exc, handler) ==
    /\ loc' = [loc EXCEPT ![t].exc = exc]
    /\ pc' = [pc EXCEPT ![t] = handler]

\* lines 14-23: the UPDATE and the choice of the path
SetUpdate(t) ==
    /\ pc[t] = "set_update"
    /\ \E fails \in BOOLEAN :
        IF fails
        THEN /\ Raise(t, "OperationalError", "set_except")
             /\ UNCHANGED sess
        ELSE LET n == Cardinality(RowsOf(View(t), req[t].product_id)) IN
             /\ ~UpdateBlocked(t, req[t].product_id)
             /\ sess' = [sess EXCEPT ![t] = Execute(@,
                    [op |-> "set", product_id |-> req[t].product_id,
                     quantity |-> req[t].quantity])]
             /\ loc' = [loc EXCEPT ![t].rowcount = n, ![t].response = UpdatedMessage(n)]
             /\ pc' = [pc EXCEPT ![t] = IF TakesInsertPath(n) THEN "set_insert" ELSE "set_hset"]
    /\ UNCHANGED <<stocks, cache, req, result, pre, last, clean, nops>>

\* lines 24-26: session.add(new_stock); session.flush()
SetInsert(t) ==
    /\ pc[t] = "set_insert"
    /\ \E fails \in BOOLEAN :
        IF fails
        THEN /\ Raise(t, "OperationalError", "set_except")
             /\ UNCHANGED sess
        ELSE IF RowsOf(View(t), req[t].product_id) # {}
        THEN /\ Raise(t, "IntegrityError", "set_except")
             /\ UNCHANGED sess
        ELSE /\ ~InsertBlocked(t, req[t].product_id)
             /\ sess' = [sess EXCEPT ![t] = Execute(@,
                    [op |-> "insert", product_id |-> req[t].product_id,
                     quantity |-> req[t].quantity])]
             /\ pc' = [pc EXCEPT ![t] = "set_commit"]
             /\ UNCHANGED loc
    /\ UNCHANGED <<stocks, cache, req, result, pre, last, clean, nops>>

\* lines 27-28: session.commit() and the "rows added" message
SetCommit(t) ==
    /\ pc[t] = "set_commit"
    /\ \E fails \in BOOLEAN :
        IF fails
        THEN /\ Raise(t, "OperationalError", "set_except")
             /\ UNCHANGED <<stocks, sess>>
        ELSE /\ stocks' = CommitRows(stocks, sess[t])
             /\ sess' = [sess EXCEPT ![t] = AfterCommit(@)]
             /\ loc' = [loc EXCEPT ![t].response = AddedMessage(req[t].product_id)]
             /\ pc' = [pc EXCEPT ![t] = "set_hset"]
    /\ UNCHANGED <<cache, req, result, pre, last, clean, nops>>

\* lines 30-32: the cache write and the return
SetHset(t) ==
    /\ pc[t] = "set_hset"
    /\ \E fails \in BOOLEAN :
        IF fails
        THEN /\ Raise(t, "RedisError", "set_except")
             /\ UNCHANGED <<cache, result>>
        ELSE /\ cache' = SetStockCacheWrite(cache, req[t].product_id, req[t].quantity)
             /\ result' = [result EXCEPT ![t] =
                    [status |-> "ok", value |-> loc[t].response, exc |-> "none"]]
             /\ pc' = [pc EXCEPT ![t] = "set_finally"]
             /\ UNCHANGED loc
    /\ UNCHANGED <<stocks, req, sess, pre, last, clean, nops>>

\* lines 33-35: except Exception: session.rollback(); raise e
SetExcept(t) ==
    /\ pc[t] = "set_except"
    /\ sess' = [sess EXCEPT ![t] = Rollback(@)]
    /\ result' = [result EXCEPT ![t] =
            [status |-> "raised", value |-> <<>>, exc |-> loc[t].exc]]
    /\ loc' = [loc EXCEPT ![t] = Raised(loc[t].exc)]
    /\ pc' = [pc EXCEPT ![t] = "set_finally"]
    /\ UNCHANGED <<stocks, cache, req, pre, last, clean, nops>>

\* lines 36-37: finally: session.close()
SetFinally(t) ==
    /\ pc[t] = "set_finally"
    /\ sess' = [sess EXCEPT ![t] = Close(@)]
    /\ pc' = [pc EXCEPT ![t] = "done"]
    /\ UNCHANGED <<stocks, cache, req, loc, result, pre, last, clean, nops>>

\* the request's outcome reaches its caller
Return(t) ==
    /\ pc[t] = "done"
    /\ pc' = [pc EXCEPT ![t] = "idle"]
    /\ last' = IF req[t].kind = "out" /\ result[t].status = "ok"
               THEN [kind |-> "out", items |-> req[t].items,
                     stocks |-> pre[t].stocks, cache |-> pre[t].cache]
               ELSE NoLast
    /\ clean' = (clean /\ result[t].status = "ok")
    /\ req' = [req EXCEPT ![t] = NoRequest]
    /\ loc' = [loc EXCEPT ![t] = NoLocals]
    /\ result' = [result EXCEPT ![t] = NoResult]
    /\ pre' = [pre EXCEPT ![t] = NoPre]
    /\ UNCHANGED <<stocks, cache, sess, nops>>

\* ------------------------------------------------------ update_stock_mysql
\* lines 43-48: the shape is tested on order_items[0], the fields are read from item
MysqlItemAccess(items, i) ==
    IF items[1].shape = "obj"
    THEN IF items[i].shape = "obj"
         THEN [exc |-> "none", product_id |-> items[i].product_id,
               quantity |-> items[i].quantity]
         ELSE [exc |-> "AttributeError", product_id |-> 0, quantity |-> 0]
    ELSE IF items[i].shape = "map"
         THEN [exc |-> "none", product_id |-> items[i].product_id,
               quantity |-> items[i].quantity]
         ELSE [exc |-> "TypeError", product_id |-> 0, quantity |-> 0]

\* lines 62 and 66: the operation of each wrapper
OperationOf(kind) == IF kind = "out" THEN "-" ELSE "+"

\* mutant: the new quantity is computed from the committed row and written
\* as an absolute value
MysqlStatementAbsolute(operation, pid, qty) ==
    IF RowsOf(stocks, pid) = {}
    THEN [op |-> "delta", product_id |-> pid, operation |-> operation, quantity |-> qty]
    ELSE [op |-> "set", product_id |-> pid,
          quantity |-> ApplyOperation(operation,
                          (CHOOSE r \in RowsOf(stocks, pid) : TRUE).quantity, qty)]

\* lines 49-56: the statement executed for one line item
MysqlStatement(operation, pid, qty) ==
    [op |-> "delta", product_id |-> pid, operation |-> operation, quantity |-> qty]

\* the order flow calls check_out_items_from_stock / check_in_items_to_stock
\* in a session of its own
CallOrder(t, r) ==
    /\ pc[t] = "idle"
    /\ nops < MaxOps
    /\ r \in BatchRequests
    /\ req' = [req EXCEPT ![t] = r]
    /\ sess' = [sess EXCEPT ![t] = OpenSession]
    /\ pc' = [pc EXCEPT ![t] = "mysql_item"]
    /\ loc' = [loc EXCEPT ![t] = NoLocals]
    /\ result' = [result EXCEPT ![t] = NoResult]
    /\ pre' = [pre EXCEPT ![t] = [stocks |-> stocks, cache |-> cache]]
    /\ last' = IF last.kind # "none" /\ r.items = last.items THEN last ELSE NoLast
    /\ nops' = nops + 1
    /\ UNCHANGED <<stocks, cache, clean>>

\* mutant: the failure rolls the caller's transaction back
MysqlOnErrorRollsBack(s) == [s EXCEPT !.pending = <<>>]

\* lines 57-58: except Exception as e: raise e; the session is not touched
MysqlOnError(s) == s

\* lines 42-58: one iteration of the loop of update_stock_mysql
MysqlItem(t) ==
    /\ pc[t] = "mysql_item"
    /\ loc[t].idx <= Len(req[t].items)
    /\ LET a == MysqlItemAccess(req[t].items, loc[t].idx) IN
       IF a.exc # "none"
       THEN /\ Raise(t, a.exc, "caller_rollback")
            /\ sess' = [sess EXCEPT ![t] = MysqlOnError(@)]
       ELSE \E fails \in BOOLEAN :
            IF fails
            THEN /\ Raise(t, "OperationalError", "caller_rollback")
                 /\ sess' = [sess EXCEPT ![t] = MysqlOnError(@)]
            ELSE /\ ~UpdateBlocked(t, a.product_id)
                 /\ sess' = [sess EXCEPT ![t] = Execute(@,
                        MysqlStatement(OperationOf(req[t].kind), a.product_id, a.quantity))]
                 /\ loc' = [loc EXCEPT ![t].idx = @ + 1]
                 /\ UNCHANGED pc
    /\ UNCHANGED <<stocks, cache, req, result, pre, last, clean, nops>>

\* update_stock_mysql has returned: the caller commits and releases its session
CallerCommit(t) ==
    /\ pc[t] = "mysql_item"
    /\ loc[t].idx > Len(req[t].items)
    /\ \E fails \in BOOLEAN :
        IF fails
        THEN /\ Raise(t, "OperationalError", "caller_rollback")
             /\ UNCHANGED <<stocks, sess>>
        ELSE /\ stocks' = CommitRows(stocks, sess[t])
             /\ sess' = [sess EXCEPT ![t] = Close(AfterCommit(@))]
             /\ pc' = [pc EXCEPT ![t] = "redis_start"]
             /\ UNCHANGED loc
    /\ UNCHANGED <<cache, req, result, pre, last, clean, nops>>

\* update_stock_mysql has raised: the caller rolls back and fails the request
CallerRollback(t) ==
    /\ pc[t] = "caller_rollback"
    /\ sess' = [sess EXCEPT ![t] = Close(Rollback(@))]
    /\ result' = [result EXCEPT ![t] =
            [status |-> "raised", value |-> <<>>, exc |-> loc[t].exc]]
    /\ loc' = [loc EXCEPT ![t] = Raised(loc[t].exc)]
    /\ pc' = [pc EXCEPT ![t] = "done"]
    /\ UNCHANGED <<stocks, cache, req, pre, last, clean, nops>>

\* ------------------------------------------------------ update_stock_redis
\* lines 78-89: the fields of one line item, read by the item's own shape
RedisItemFields(item) ==
    LET p == item.product_id IN
    [product_id |-> p,
     quantity |-> item.quantity,
     name |-> IF item.meta THEN ProductsTable[p].name ELSE DefaultName(p),
     sku |-> IF item.meta THEN ProductsTable[p].sku ELSE DefaultSku(p),
     price |-> IF item.meta THEN ProductsTable[p].price ELSE DefaultPrice]

\* mutant: the cached quantity is not read, the base is always the default
CurrentStockIgnored(hash) == DefaultStock

\* lines 91-92: int(current_stock) if current_stock else 0
CurrentStock(hash) ==
    IF HasField(hash, "quantity") /\ hash.quantity # <<>>
    THEN PyInt(hash.quantity)
    ELSE DefaultStock

\* mutant: the operation is not looked at, the quantity is always added
NewQuantityAlwaysAdds(operation, current, qty) == current + qty

\* lines 94-97
NewQuantity(operation, current, qty) ==
    IF operation = "+" THEN current + qty ELSE current - qty

\* lines 99-104: the mapping written for one line item
ItemMapping(f, new_quantity) ==
    [quantity |-> IntStr(new_quantity), name |-> f.name, sku |-> f.sku,
     price |-> FloatStr(f.price)]

\* mutant: the partial update is taken whatever the scan returns
IsWarmAlways(keys) == TRUE

\* line 75: the partial update is taken when the scan returns a key
IsWarm(keys) == keys # {}

\* mutant: only the first queued command is executed
ExecutePipelineFirstOnly(c, pipeline) ==
    IF pipeline = <<>> THEN c
    ELSE [c EXCEPT ![Head(pipeline).product_id] = HSet(@, Head(pipeline).mapping)]

\* pipeline.execute(): the queued hset commands, in order
RECURSIVE ExecutePipeline(_, _)
ExecutePipeline(c, pipeline) ==
    IF pipeline = <<>> THEN c
    ELSE ExecutePipeline(
            [c EXCEPT ![Head(pipeline).product_id] = HSet(@, Head(pipeline).mapping)],
            Tail(pipeline))

Finish(t, status, exc) ==
    /\ result' = [result EXCEPT ![t] = [status |-> status, value |-> <<>>, exc |-> exc]]
    /\ pc' = [pc EXCEPT ![t] = "done"]

\* mutant: the empty batch is not told apart
IsEmptyBatchNever(order_items) == FALSE

\* line 70: if not order_items
IsEmptyBatch(order_items) == order_items = <<>>

\* lines 70-75 and 108: the empty batch, the scan, the choice of the path
RedisStart(t) ==
    /\ pc[t] = "redis_start"
    /\ IF IsEmptyBatch(req[t].items)
       THEN /\ Finish(t, "ok", "none")
            /\ UNCHANGED loc
       ELSE \E fails \in BOOLEAN :
            IF fails
            THEN /\ Finish(t, "raised", "RedisError")
                 /\ loc' = [loc EXCEPT ![t] = Raised("RedisError")]
            ELSE /\ loc' = [loc EXCEPT ![t].idx = 1, ![t].pipeline = <<>>,
                        ![t].path = IF IsWarm(StockKeys(cache)) THEN "warm" ELSE "cold"]
                 /\ pc' = [pc EXCEPT ![t] =
                        IF IsWarm(StockKeys(cache)) THEN "redis_item" ELSE "populate_select"]
                 /\ UNCHANGED result
    /\ UNCHANGED <<stocks, cache, req, sess, pre, last, clean, nops>>

\* lines 77-104: one iteration: read the cached quantity, queue the write
RedisItem(t) ==
    /\ pc[t] = "redis_item"
    /\ loc[t].idx <= Len(req[t].items)
    /\ \E fails \in BOOLEAN :
        IF fails
        THEN /\ Finish(t, "raised", "RedisError")
             /\ loc' = [loc EXCEPT ![t] = Raised("RedisError")]
        ELSE LET f == RedisItemFields(req[t].items[loc[t].idx])
                 new_quantity == NewQuantity(OperationOf(req[t].kind),
                                    CurrentStock(cache[f.product_id]), f.quantity)
             IN /\ loc' = [loc EXCEPT ![t].idx = @ + 1,
                        ![t].pipeline = Append(@, [product_id |-> f.product_id,
                                            mapping |-> ItemMapping(f, new_quantity)])]
                /\ UNCHANGED <<pc, result>>
    /\ UNCHANGED <<stocks, cache, req, sess, pre, last, clean, nops>>

\* line 106: pipeline.execute()
RedisExecute(t) ==
    /\ pc[t] = "redis_item"
    /\ loc[t].idx > Len(req[t].items)
    /\ \E fails \in BOOLEAN :
        IF fails
        THEN /\ Finish(t, "raised", "RedisError")
             /\ loc' = [loc EXCEPT ![t] = Raised("RedisError")]
             /\ UNCHANGED cache
        ELSE /\ cache' = ExecutePipeline(cache, loc[t].pipeline)
             /\ Finish(t, "ok", "none")
             /\ UNCHANGED loc
    /\ UNCHANGED <<stocks, req, sess, pre, last, clean, nops>>

\* ---------------------------------------------- _populate_redis_from_mysql
\* lines 115-121: products JOIN stocks ON p.id = s.product_id
JoinedRows(rows) ==
    {[product_id |-> r.product_id, name |-> ProductsTable[r.product_id].name,
      sku |-> ProductsTable[r.product_id].sku, price |-> ProductsTable[r.product_id].price,
      quantity |-> r.quantity] : r \in {x \in rows : x.product_id \in DOMAIN ProductsTable}}

\* mutant: the resync writes the placeholders of the partial update
RowMappingPlaceholders(row) ==
    [quantity |-> IntStr(row.quantity), name |-> DefaultName(row.product_id),
     sku |-> DefaultSku(row.product_id), price |-> FloatStr(DefaultPrice)]

\* lines 130-138: the mapping written for one joined row
RowMapping(row) ==
    [quantity |-> IntStr(row.quantity), name |-> row.name, sku |-> row.sku,
     price |-> FloatStr(row.price)]

\* lines 127-140: one hset per fetched row, executed together
PopulateWrites(c, fetched) ==
    [p \in Products |->
        IF \E row \in fetched : row.product_id = p
        THEN HSet(c[p], RowMapping(CHOOSE row \in fetched : row.product_id = p))
        ELSE c[p]]

\* line 113: session = get_sqlalchemy_session()
SyncOpened(l) == [l EXCEPT !.syncOpen = TRUE]
\* lines 146-147: finally: session.close()
SyncClosed(l) == [l EXCEPT !.syncOpen = FALSE]

\* lines 113-125: the session, the query, the return when there is no row
PopulateSelect(t) ==
    /\ pc[t] = "populate_select"
    /\ \E fails \in BOOLEAN :
        IF fails
        THEN /\ Finish(t, "raised", "OperationalError")
             /\ loc' = [loc EXCEPT ![t] = SyncClosed(SyncOpened(Raised("OperationalError")))]
        ELSE IF JoinedRows(stocks) = {}
        THEN /\ Finish(t, "ok", "none")
             /\ loc' = [loc EXCEPT ![t] = SyncClosed(SyncOpened(@))]
        ELSE /\ loc' = [loc EXCEPT ![t] = SyncOpened([@ EXCEPT !.fetched = JoinedRows(stocks)])]
             /\ pc' = [pc EXCEPT ![t] = "populate_exec"]
             /\ UNCHANGED result
    /\ UNCHANGED <<stocks, cache, req, sess, pre, last, clean, nops>>

\* lines 127-147: the pipelined writes and the release of the session
PopulateExecute(t) ==
    /\ pc[t] = "populate_exec"
    /\ \E fails \in BOOLEAN :
        IF fails
        THEN /\ Finish(t, "raised", "RedisError")
             /\ loc' = [loc EXCEPT ![t] = SyncClosed(SyncOpened(Raised("RedisError")))]
             /\ UNCHANGED cache
        ELSE /\ cache' = PopulateWrites(cache, loc[t].fetched)
             /\ Finish(t, "ok", "none")
             /\ loc' = [loc EXCEPT ![t] = SyncClosed(@)]
    /\ UNCHANGED <<stocks, req, sess, pre, last, clean, nops>>

Next ==
    \E t \in Threads :
        \/ \E r \in SetRequests : t = 1 /\ AllIdle /\ CallSetStock(t, r)
        \/ \E r \in BatchRequests : t = 1 /\ AllIdle /\ CallOrder(t, r)
        \/ SetUpdate(t)
        \/ SetInsert(t)
        \/ SetCommit(t)
        \/ SetHset(t)
        \/ SetExcept(t)
        \/ SetFinally(t)
        \/ MysqlItem(t)
        \/ CallerCommit(t)
        \/ CallerRollback(t)
        \/ RedisStart(t)
        \/ RedisItem(t)
        \/ RedisExecute(t)
        \/ PopulateSelect(t)
        \/ PopulateExecute(t)
        \/ Return(t)

Spec == Init /\ [][Next]_vars

\* ------------------------------------------------------ concurrent requests
\* the store as successful set_stock_for_product calls on products without
\* StockRecord leave it: a committed row and a quantity-only cache entry
SeededRows(seeded) == {[product_id |-> p, quantity |-> MaxQty] : p \in seeded}
SeededCache(seeded) ==
    [p \in Products |-> IF p \in seeded THEN "quantity" :> IntStr(MaxQty) ELSE EmptyHash]

ConcInit ==
    /\ \E seeded \in SUBSET Products :
        /\ stocks = SeededRows(seeded)
        /\ cache = SeededCache(seeded)
    /\ pc = [t \in Threads |-> "idle"]
    /\ req = [t \in Threads |-> NoRequest]
    /\ sess = [t \in Threads |-> ClosedSession]
    /\ loc = [t \in Threads |-> NoLocals]
    /\ result = [t \in Threads |-> NoResult]
    /\ pre = [t \in Threads |-> NoPre]
    /\ last = NoLast
    /\ clean = TRUE
    /\ nops = 0

\* the batches of the concurrent requests: mapping-shaped line items that
\* carry product_id and quantity
ConcBatchRequests ==
    {r \in BatchRequests :
        /\ r.items # <<>>
        /\ \A i \in DOMAIN r.items : r.items[i].shape = "map" /\ ~r.items[i].meta}

\* the request of u has been received and has not taken a step
Received(u) ==
    /\ pc[u] \in {"set_update", "mysql_item"}
    /\ sess[u] = OpenSession
    /\ loc[u] = NoLocals

\* the requests arrive together, one per thread, before any of them runs
Arrives(t) ==
    \A u \in Threads \ {t} : IF u < t THEN Received(u) ELSE pc[u] = "idle"

ConcNext ==
    \E t \in Threads :
        \/ \E r \in SetRequests : Arrives(t) /\ CallSetStock(t, r)
        \/ \E r \in ConcBatchRequests : Arrives(t) /\ CallOrder(t, r)
        \/ SetUpdate(t)
        \/ SetInsert(t)
        \/ SetCommit(t)
        \/ SetHset(t)
        \/ SetExcept(t)
        \/ SetFinally(t)
        \/ MysqlItem(t)
        \/ CallerCommit(t)
        \/ CallerRollback(t)
        \/ RedisStart(t)
        \/ RedisItem(t)
        \/ RedisExecute(t)
        \/ PopulateSelect(t)
        \/ PopulateExecute(t)

ConcSpec == ConcInit /\ [][ConcNext]_vars

\* ------------------------------------------------------- claim vocabulary
Done(t) == pc[t] = "done"
Ok(t) == result[t].status = "ok"
IsSet(t) == req[t].kind = "set"
IsBatch(t) == req[t].kind \in {"out", "in"}
HasRow(rows, p) == RowsOf(rows, p) # {}
QtyOf(rows, p) == (CHOOSE r \in RowsOf(rows, p) : TRUE).quantity
HasKey(c, p) == DOMAIN c[p] # {}
HasQty(c, p) == "quantity" \in DOMAIN c[p]
CachedQty(c, p) == PyInt(c[p].quantity)
OneRow(rows, p, q) == RowsOf(rows, p) = {[product_id |-> p, quantity |-> q]}
Cold(c) == StockKeys(c) = {}
Injected == {"OperationalError", "RedisError"}

Occurrences(items, p) == {i \in DOMAIN items : items[i].product_id = p}
Uniform(items) == \A i, j \in DOMAIN items : items[i].shape = items[j].shape

RECURSIVE SumFor(_, _)
SumFor(items, p) ==
    IF items = <<>> THEN 0
    ELSE (IF Head(items).product_id = p THEN Head(items).quantity ELSE 0)
         + SumFor(Tail(items), p)

\* the signed total a batch request asks for product p
SignedSum(r, p) == IF r.kind = "in" THEN SumFor(r.items, p) ELSE -SumFor(r.items, p)

\* ------------------------------------------------------------------ claims
\* C1: convergence. In every quiescent state reached by completed mutations
\* (set stock, check-out, check-in, one after the other), every product with
\* a StockRecord and a stock:{id} key has a cached quantity equal to the
\* committed quantity.
C1_Convergence ==
    (AllIdle /\ clean) =>
        \A p \in Products :
            (HasRow(stocks, p) /\ HasKey(cache, p)) =>
                /\ HasQty(cache, p)
                /\ CachedQty(cache, p) = QtyOf(stocks, p)

\* C2: a successful set_stock_for_product(P, Q) for a product without
\* StockRecord leaves exactly one committed record (P, Q), a cache entry of
\* quantity Q, and returns the "rows added" message.
C2_SetStockInserts ==
    \A t \in Threads :
        (Done(t) /\ IsSet(t) /\ Ok(t) /\ ~HasRow(pre[t].stocks, req[t].product_id)) =>
            /\ OneRow(stocks, req[t].product_id, req[t].quantity)
            /\ HasQty(cache, req[t].product_id)
            /\ CachedQty(cache, req[t].product_id) = req[t].quantity
            /\ result[t].value = <<"rows added: ">> \o IntStr(req[t].product_id)

C2_Witness ==
    \E t \in Threads :
        /\ Done(t) /\ IsSet(t) /\ Ok(t)
        /\ ~HasRow(pre[t].stocks, req[t].product_id)
        /\ pre[t].stocks # {}
        /\ req[t].quantity > 0

\* C3: a successful set_stock_for_product(P, Q1) for a product with a
\* StockRecord leaves, once the call has returned and its session is closed,
\* exactly one committed record (P, Q1), a cached quantity Q1, and returns
\* the "rows updated" message.
C3_SetStockUpdatesInPlace ==
    \A t \in Threads :
        (Done(t) /\ IsSet(t) /\ Ok(t) /\ HasRow(pre[t].stocks, req[t].product_id)) =>
            /\ ~sess[t].open
            /\ OneRow(stocks, req[t].product_id, req[t].quantity)
            /\ HasQty(cache, req[t].product_id)
            /\ CachedQty(cache, req[t].product_id) = req[t].quantity
            /\ Head(result[t].value) = "rows updated: "

\* the request on t is a completed check-out or check-in in which product p
\* has exactly one line item, and p had one StockRecord when it was called
SingleItemFor(t, p) ==
    /\ Done(t) /\ IsBatch(t) /\ Ok(t)
    /\ Cardinality(Occurrences(req[t].items, p)) = 1
    /\ HasRow(pre[t].stocks, p)

\* p is cached with the durable quantity in the warm cache c
WarmInSync(rows, c, p) ==
    /\ ~Cold(c)
    /\ HasRow(rows, p)
    /\ HasQty(c, p)
    /\ CachedQty(c, p) = QtyOf(rows, p)

C6_ColdResync ==
    \A t \in Threads :
        (Done(t) /\ IsBatch(t) /\ Ok(t) /\ req[t].items # <<>> /\ Cold(pre[t].cache)) =>
            /\ loc[t].path = "cold"
            /\ loc[t].pipeline = <<>>
            /\ loc[t].fetched = JoinedRows(stocks)
            /\ \A p \in Products :
                IF HasRow(stocks, p)
                THEN HasQty(cache, p) /\ CachedQty(cache, p) = QtyOf(stocks, p)
                ELSE ~HasKey(cache, p)

C6_Witness ==
    \E t \in Threads : \E p \in Products :
        /\ Done(t) /\ IsBatch(t) /\ Ok(t) /\ Cold(pre[t].cache)
        /\ Occurrences(req[t].items, p) # {}
        /\ HasRow(stocks, p)
        /\ QtyOf(stocks, p) # 0
        /\ HasQty(cache, p)

\* C7: a batch mixing object-shaped and mapping-shaped line items is applied
\* by update_stock_mysql without raising: unless the database itself fails,
\* the request succeeds and every StockRecord has moved by the signed total
\* of its line items.
C7_MixedShapes ==
    \A t \in Threads :
        (Done(t) /\ IsBatch(t) /\ ~Uniform(req[t].items)
            /\ result[t].exc \notin Injected) =>
            /\ Ok(t)
            /\ \A p \in Products :
                HasRow(pre[t].stocks, p) =>
                    OneRow(stocks, p, QtyOf(pre[t].stocks, p) + SignedSum(req[t], p))

\* C8: when a durable-store step of set_stock_for_product fails, the
\* transaction is rolled back, the failure is raised to the caller, the cache
\* and the committed rows are left as they were, and the session is closed;
\* the session is closed on every exit, successful or not.
DurableFailures == {"OperationalError", "IntegrityError"}

C8_SetStockFailure ==
    \A t \in Threads :
        /\ (IsSet(t) /\ pc[t] = "set_finally" /\ loc[t].exc \in DurableFailures) =>
            /\ sess[t].pending = <<>>
            /\ result[t].status = "raised"
            /\ result[t].exc = loc[t].exc
            /\ cache = pre[t].cache
            /\ stocks = pre[t].stocks
        /\ (IsSet(t) /\ Done(t)) =>
            /\ sess[t] = ClosedSession
            /\ result[t].status \in {"ok", "raised"}
            /\ loc[t].exc \in DurableFailures =>
                /\ result[t].status = "raised"
                /\ cache = pre[t].cache
                /\ stocks = pre[t].stocks

C8_Witness ==
    \E t \in Threads :
        /\ IsSet(t) /\ Done(t)
        /\ loc[t].exc = "OperationalError"
        /\ result[t].status = "raised"
        /\ ~sess[t].open
        /\ ~Cold(cache)
        /\ ~HasRow(stocks, req[t].product_id)

\* C9: when the cache write of set_stock_for_product fails after the durable
\* write, the failure reaches the caller and the durable store keeps the new
\* quantity, on the update path and on the insert path.
C9_CacheFailureKeepsDurable ==
    \A t \in Threads :
        (IsSet(t) /\ Done(t) /\ loc[t].exc = "RedisError") =>
            /\ result[t].status = "raised"
            /\ OneRow(stocks, req[t].product_id, req[t].quantity)

\* C10: update_stock_mysql on a line item whose product has no StockRecord
\* changes no row and raises nothing: when the loop has run over a batch of
\* one shape, the session holds no record for that product and every other
\* record has moved by the signed total of its line items; such a batch
\* raises only when the database or the cache itself fails.
C10_MissingRowSilent ==
    \A t \in Threads :
        /\ (IsBatch(t) /\ pc[t] = "mysql_item" /\ loc[t].idx > Len(req[t].items)) =>
            /\ loc[t].exc = "none"
            /\ \A p \in Products :
                IF HasRow(pre[t].stocks, p)
                THEN OneRow(View(t), p, QtyOf(pre[t].stocks, p) + SignedSum(req[t], p))
                ELSE ~HasRow(View(t), p)
        /\ (IsBatch(t) /\ Uniform(req[t].items) /\ loc[t].exc # "none") =>
            loc[t].exc \in Injected

C10_Witness ==
    \E t \in Threads : \E p, q \in Products :
        /\ IsBatch(t) /\ pc[t] = "mysql_item" /\ loc[t].idx > Len(req[t].items)
        /\ Occurrences(req[t].items, p) # {}
        /\ Occurrences(req[t].items, q) # {}
        /\ ~HasRow(pre[t].stocks, p)
        /\ HasRow(pre[t].stocks, q)
        /\ View(t) # pre[t].stocks

\* C11: after a successful run of _populate_redis_from_mysql, every product
\* with a StockRecord has a cache entry whose quantity is the durable quantity
\* and whose name, sku and price are those of the product; when the durable
\* store holds no stock row the cache is not written; the session of the
\* resync is closed on every exit, successful or not.
C11_PopulateFromMysql ==
    \A t \in Threads :
        /\ (Done(t) /\ IsBatch(t)) => ~loc[t].syncOpen
        /\ (Done(t) /\ IsBatch(t) /\ Ok(t) /\ loc[t].path = "cold") =>
            /\ stocks = {} => cache = pre[t].cache
            /\ \A p \in Products :
                HasRow(stocks, p) =>
                    /\ DOMAIN cache[p] = {"quantity", "name", "sku", "price"}
                    /\ cache[p].quantity = IntStr(QtyOf(stocks, p))
                    /\ cache[p].name = ProductsTable[p].name
                    /\ cache[p].sku = ProductsTable[p].sku
                    /\ cache[p].price = FloatStr(ProductsTable[p].price)

C11_Witness ==
    \E t \in Threads : \E p \in Products :
        /\ Done(t) /\ IsBatch(t) /\ Ok(t) /\ loc[t].path = "cold"
        /\ Occurrences(req[t].items, p) = {}
        /\ HasRow(stocks, p)
        /\ QtyOf(stocks, p) # 0
        /\ cache[p].name = ProductsTable[p].name

\* the state in which the concurrent requests arrived
Initially == pre[CHOOSE t \in Threads : \A u \in Threads : t <= u]
\* both requests are batches that completed on the partial-update path
BothWarmDone ==
    \A t \in Threads : Done(t) /\ IsBatch(t) /\ Ok(t) /\ loc[t].path = "warm"
OnceInEach(p) ==
    \A t \in Threads : Cardinality(Occurrences(req[t].items, p)) = 1
\* the quantity t queued for p, and the cached quantity it had read for it
QueuedFor(t, p) ==
    PyInt(loc[t].pipeline[CHOOSE i \in Occurrences(req[t].items, p) : TRUE].mapping.quantity)
ReadFor(t, p) == QueuedFor(t, p) - SignedSum(req[t], p)
BothReadFirst(p) ==
    \A t \in Threads : ReadFor(t, p) = CurrentStock(Initially.cache[p])

\* C12: two concurrent update_stock_redis batches on the same product and a
\* warm cache race. When both have read the cached quantity before either
\* pipelined write, the cache ends with the quantity one of them queued, which
\* is not the initial quantity plus the sum of both deltas; otherwise it ends
\* with the initial quantity plus both deltas.
C12_CacheRace ==
    \A p \in Products :
        (BothWarmDone /\ OnceInEach(p)) =>
            LET total == CurrentStock(Initially.cache[p])
                         + SignedSum(req[1], p) + SignedSum(req[2], p)
            IN IF BothReadFirst(p)
               THEN /\ CachedQty(cache, p) # total
                    /\ \E t \in Threads : CachedQty(cache, p) = QueuedFor(t, p)
               ELSE CachedQty(cache, p) = total

C12_Witness ==
    \E p \in Products :
        /\ BothWarmDone /\ OnceInEach(p) /\ BothReadFirst(p)
        /\ HasQty(Initially.cache, p)
        /\ HasRow(stocks, p)
        /\ QtyOf(stocks, p) = CachedQty(Initially.cache, p)
                               + SignedSum(req[1], p) + SignedSum(req[2], p)
        /\ CachedQty(cache, p) # QtyOf(stocks, p)

\* the transaction of the batch request on t has committed
PastCommit(t) ==
    /\ IsBatch(t)
    /\ \/ pc[t] \in {"redis_start", "redis_item", "populate_select", "populate_exec"}
       \/ Done(t) /\ result[t].exc \in {"none", "RedisError"}
\* ... or is still open
InFlight(t) == IsBatch(t) /\ pc[t] \in {"mysql_item", "caller_rollback"}
Committed(t, p) == IF PastCommit(t) THEN SignedSum(req[t], p) ELSE 0

\* C13: concurrent batch adjustments of the durable store made in different
\* sessions never lose an update: the committed quantity of every existing
\* StockRecord is its initial quantity plus the signed sum of the deltas of
\* all the batches that have committed, and no StockRecord appears.
C13_NoLostUpdate ==
    (\A t \in Threads : PastCommit(t) \/ InFlight(t)) =>
        \A p \in Products :
            IF HasRow(Initially.stocks, p)
            THEN OneRow(stocks, p, QtyOf(Initially.stocks, p)
                                   + Committed(1, p) + Committed(2, p))
            ELSE ~HasRow(stocks, p)

C13_Witness ==
    \E p \in Products :
        /\ \A t \in Threads : PastCommit(t) /\ Occurrences(req[t].items, p) # {}
        /\ HasRow(Initially.stocks, p)
        /\ req[1].kind = req[2].kind
        /\ QtyOf(stocks, p) = QtyOf(Initially.stocks, p)
                               + SignedSum(req[1], p) + SignedSum(req[2], p)

\* C14: update_stock_redis called with an empty order_items is a no-op in
\* every cache state, the cold one included: it scans nothing, reads nothing,
\* queues no write and runs no resync, so the cache and the durable store are
\* what they were, and it returns without raising.
C14_EmptyBatchNoOp ==
    \A t \in Threads :
        (Done(t) /\ IsBatch(t) /\ req[t].items = <<>>
            /\ result[t].exc # "OperationalError") =>
            /\ Ok(t)
            /\ loc[t].path = "none"
            /\ loc[t].pipeline = <<>>
            /\ loc[t].fetched = {}
            /\ cache = pre[t].cache
            /\ stocks = pre[t].stocks

C14_Witness ==
    \E t \in Threads :
        /\ Done(t) /\ IsBatch(t) /\ req[t].items = <<>> /\ Ok(t)
        /\ Cold(cache)
        /\ stocks # {}

\* C15: update_stock_mysql never commits and never rolls back the caller's
\* session. While it runs, and when it has raised on line item k, nothing is
\* committed, the session is open, and the session holds exactly the updates
\* of the line items before k, in order: the failure is raised, the items from
\* k on are not applied, the earlier ones stay pending for the caller.
C15_MysqlLeavesTransaction ==
    \A t \in Threads :
        (IsBatch(t) /\ pc[t] \in {"mysql_item", "caller_rollback"}) =>
            /\ stocks = pre[t].stocks
            /\ sess[t].open
            /\ Len(sess[t].pending) = loc[t].idx - 1
            /\ \A i \in DOMAIN sess[t].pending :
                sess[t].pending[i] =
                    [op |-> "delta", product_id |-> req[t].items[i].product_id,
                     operation |-> IF req[t].kind = "out" THEN "-" ELSE "+",
                     quantity |-> req[t].items[i].quantity]
            /\ (pc[t] = "caller_rollback") = (loc[t].exc # "none")

C15_Witness ==
    \E t \in Threads :
        /\ IsBatch(t) /\ pc[t] = "caller_rollback"
        /\ Len(req[t].items) = 2
        /\ loc[t].idx = 2
        /\ loc[t].exc = "OperationalError"
        /\ View(t) # stocks

\* C16: after update_stock_redis has run on a warm cache, the name, sku and
\* price of every cache entry it wrote are those of the product in the
\* durable store, also when the line items carry only product_id and
\* quantity.
C16_MetadataConsistent ==
    \A t \in Threads : \A p \in Products :
        (Done(t) /\ IsBatch(t) /\ Ok(t) /\ loc[t].path = "warm"
            /\ Occurrences(req[t].items, p) # {}) =>
            /\ cache[p].name = ProductsTable[p].name
            /\ cache[p].sku = ProductsTable[p].sku
            /\ cache[p].price = FloatStr(ProductsTable[p].price)

\* C17: for a batch with several line items for the same product,
\* update_stock_redis on a warm cache moves the cached quantity by the signed
\* sum of those items, the total update_stock_mysql applies to the
\* StockRecord.
C17_DuplicateItemsSum ==
    \A t \in Threads : \A p \in Products :
        (Done(t) /\ IsBatch(t) /\ Ok(t) /\ loc[t].path = "warm"
            /\ Cardinality(Occurrences(req[t].items, p)) > 1) =>
            /\ CurrentStock(cache[p]) = CurrentStock(pre[t].cache[p]) + SignedSum(req[t], p)
            /\ HasRow(pre[t].stocks, p) =>
                QtyOf(stocks, p) = QtyOf(pre[t].stocks, p) + SignedSum(req[t], p)

\* C18: the cache is a projection of the durable store: in every quiescent
\* state reached by completed set_stock_for_product, check-out and check-in
\* requests, every stock:{product_id} key belongs to a product that has a
\* StockRecord.
C18_CacheIsProjection ==
    (AllIdle /\ clean) =>
        \A p \in Products : HasKey(cache, p) => HasRow(stocks, p)

\* both requests are set_stock_for_product calls for p, which had no
\* StockRecord when they arrived
BothSetNew(p) ==
    /\ \A t \in Threads : IsSet(t) /\ req[t].product_id = p
    /\ ~HasRow(Initially.stocks, p)
\* the cache entry of p is not one that t wrote
NoCacheWriteBy(t, p) ==
    \/ cache[p] = Initially.cache[p]
    \/ \E u \in Threads \ {t} :
        /\ Ok(u)
        /\ cache[p] = HSet(Initially.cache[p], "quantity" :> IntStr(req[u].quantity))

\* C19: under every interleaving of two concurrent set_stock_for_product
\* calls for the same product without StockRecord, the durable store never
\* holds more than one StockRecord for the product, and each call either
\* succeeds or raises with its transaction rolled back, its session closed
\* and no cache write of its own.
C19_ConcurrentFirstSet ==
    \A p \in Products :
        BothSetNew(p) =>
            /\ Cardinality(RowsOf(stocks, p)) <= 1
            /\ \A r \in RowsOf(stocks, p) : \E t \in Threads : r.quantity = req[t].quantity
            /\ \A t \in Threads :
                /\ pc[t] \in {"set_finally", "done"} =>
                    \/ Ok(t)
                    \/ /\ result[t].status = "raised"
                       /\ sess[t].pending = <<>>
                       /\ NoCacheWriteBy(t, p)
                /\ Done(t) => ~sess[t].open

C19_Witness ==
    \E p \in Products : \E t, u \in Threads :
        /\ BothSetNew(p)
        /\ Done(t) /\ Done(u)
        /\ req[t].quantity # req[u].quantity
        /\ Ok(t)
        /\ result[u].status = "raised" /\ result[u].exc = "OperationalError"
        /\ OneRow(stocks, p, req[t].quantity)
        /\ CachedQty(cache, p) = req[t].quantity

\* C20: once the cache holds a stock:* key it stays warm: no request removes
\* a key, a later update_stock_redis takes the partial update and never the
\* resync, and a successful check-out or check-in leaves the difference
\* between the cached and the durable quantity of every product as it was,
\* so that a divergence is never repaired.
C20_WarmNeverRepairs ==
    \A t \in Threads :
        (Done(t) /\ ~Cold(pre[t].cache)) =>
            /\ StockKeys(pre[t].cache) \subseteq StockKeys(cache)
            /\ (IsBatch(t) /\ Ok(t) /\ req[t].items # <<>>) =>
                /\ loc[t].path = "warm"
                /\ loc[t].fetched = {}
                /\ \A p \in Products :
                    (HasRow(pre[t].stocks, p) /\ HasQty(pre[t].cache, p)) =>
                        /\ HasRow(stocks, p)
                        /\ HasQty(cache, p)
                        /\ CachedQty(cache, p) - QtyOf(stocks, p)
                           = CachedQty(pre[t].cache, p) - QtyOf(pre[t].stocks, p)
====
